---- MODULE Spec2Model ----
(***************************************************************************)
(* A model of flytekit/core/python_function_task.py: construction of a     *)
(* PythonFunctionTask, the execute dispatch, dynamic_execute and           *)
(* compile_into_workflow, with the ambient FlyteContext kept as a stack    *)
(* per call stack.                                                         *)
(***************************************************************************)
EXTENDS Integers, Sequences, FiniteSets, TLC

VARIABLES
    ctor_args,  \* the constructor call: its arguments while pending, then its outcome
    task,       \* the Task Entity: _task_function, _execution_mode, _task_resolver, _wf
    wfs,        \* the PythonFunctionWorkflow objects compile_into_workflow has built
    inv         \* per call stack: the frame of the running operation, its context
                \* stack, the runs of the callable unit so far, and what it returned

vars == <<ctor_args, task, wfs, inv>>

(* ---------------------------------------------------------------- bounds *)

\* the largest number of nested entity calls a callable unit makes
MaxCalls == 2
\* keyword arguments are one integer a in 1..MaxArg
MaxArg == 2
\* the largest number of declared outputs of a callable unit
MaxOutputs == 1

(* ------------------------------------------------------ values and types *)

\* Python's None, for object-valued fields
None == [py_none |-> TRUE]

\* the two call stacks that may invoke the one Task Entity
Procs == {1, 2}

ExecutionBehavior == {"DEFAULT", "DYNAMIC"}

Mode == {"TASK_EXECUTION", "LOCAL_WORKFLOW_EXECUTION", "LOCAL_TASK_EXECUTION"}

\* SerializationSettings.for_image(DefaultImages.default_image(), "v", "p", "d")
_LOCAL_ONLY_SS == [image |-> "default_image", project |-> "v", domain |-> "p", version |-> "d"]

\* the serialization settings the surrounding program has set up
AmbientSS == [image |-> "registered_image", project |-> "proj", domain |-> "dom", version |-> "ver"]

\* the entities a callable unit may call: a python task, a fetched task
\* template (FlyteTask), a launch plan, a reference task, and a task whose
\* serialized form is not a TaskSpec
Callees == {"t1", "ft", "lp", "ref", "bad"}

\* isinstance(entity, Task)
IsTask(entity) == entity \in {"t1", "ref", "bad"}

\* isinstance(entity, task_models.TaskTemplate)
IsTaskTemplate(entity) == entity = "ft"

\* isinstance(entity, ReferenceTask)
IsReferenceTask(entity) == entity = "ref"

\* isinstance(model, task_models.TaskSpec)
IsTaskSpec(model) == model.type = "TaskSpec"

\* all sequences over S of length at most n
RECURSIVE SeqsUpTo(_, _)
SeqsUpTo(S, n) ==
    IF n = 0 THEN {<<>>}
    ELSE LET shorter == SeqsUpTo(S, n - 1)
         IN  shorter \cup {Append(s, x) : s \in {t \in shorter : Len(t) = n - 1}, x \in S}

\* the callable units: the entities the body calls, in order; whether the
\* body raises; how many outputs the signature declares
CallableUnits ==
    [body : SeqsUpTo(Callees, MaxCalls), faulty : BOOLEAN, outputs : 0..MaxOutputs]

Kwargs == [a : 1..MaxArg]

OutName(i) == <<"o", i - 1>>

\* what the callable unit returns when it is run as plain Python
NativeResult(fn, kwargs) ==
    [type |-> "native", values |-> [i \in 1..fn.outputs |-> 10 * kwargs.a + i]]

\* exception_scopes.user_entry_point(f)(**kwargs): runs f, a fault of f
\* leaves wrapped as a user exception
user_entry_point(fn, kwargs) ==
    IF fn.faulty
    THEN [kind |-> "raise", exc |-> "FlyteScopedUserException"]
    ELSE [kind |-> "return", value |-> NativeResult(fn, kwargs)]

(* -------------------------------------------------- the execution context *)

ExecutionStates == {None} \cup [mode : Mode \cup {"NONE"}]

CompilationStates == {None, [prefix |-> "", nodes |-> "outer"]}

\* the contexts a caller may be running under
AmbientContexts ==
    [execution_state : ExecutionStates,
     serialization_settings : {AmbientSS},
     compilation_state : CompilationStates]

\* FlyteContextManager.current_context()
current_context(stack) == stack[Len(stack)]

\* entering `with FlyteContextManager.with_context(c)`
push_context(stack, c) == Append(stack, c)

\* leaving a `with FlyteContextManager.with_context(...)` block
pop_context(stack) == SubSeq(stack, 1, Len(stack) - 1)

\* ctx.new_compilation_state(prefix) / ctx.compilation_state.with_params(prefix)
CompilationStateFor(ctx) ==
    IF ctx.compilation_state = None
    THEN [prefix |-> "d", nodes |-> "fresh"]
    ELSE [ctx.compilation_state EXCEPT !.prefix = "d"]

\* ctx.with_compilation_state(cs)
CompileContext(ctx) == [ctx EXCEPT !.compilation_state = CompilationStateFor(ctx)]

\* ctx.with_execution_state(updated_exec_state).with_serialization_settings(_LOCAL_ONLY_SS)
LocalCheckContext(ctx) ==
    [ctx EXCEPT !.execution_state = [@ EXCEPT !.mode = "TASK_EXECUTION"],
                !.serialization_settings = _LOCAL_ONLY_SS]

\* ctx.execution_state and ctx.execution_state.mode == m
ModeIs(ctx, m) == ctx.execution_state # None /\ ctx.execution_state.mode = m

\* DynamicBranch with a slip: TASK_EXECUTION is sent down the direct-run path
DynamicBranch_TaskRunsDirectly(ctx) ==
    IF ModeIs(ctx, "LOCAL_WORKFLOW_EXECUTION") THEN "LOCAL_WORKFLOW_EXECUTION"
    ELSE IF ModeIs(ctx, "TASK_EXECUTION") THEN "LOCAL_TASK_EXECUTION"
    ELSE IF ModeIs(ctx, "LOCAL_TASK_EXECUTION") THEN "LOCAL_TASK_EXECUTION"
    ELSE "fallthrough"

\* which branch of dynamic_execute the context selects
DynamicBranch(ctx) ==
    IF ModeIs(ctx, "LOCAL_WORKFLOW_EXECUTION") THEN "LOCAL_WORKFLOW_EXECUTION"
    ELSE IF ModeIs(ctx, "TASK_EXECUTION") THEN "TASK_EXECUTION"
    ELSE IF ModeIs(ctx, "LOCAL_TASK_EXECUTION") THEN "LOCAL_TASK_EXECUTION"
    ELSE "fallthrough"

(* ------------------------------------------- the graph-building collaborator *)

\* a PythonFunctionWorkflow object just built around task_function
NewWorkflowObject(fn) ==
    [allocated |-> TRUE, function |-> fn, compiled |-> FALSE,
     nodes |-> <<>>, outputs |-> <<>>,
     on_failure |-> "FAIL_IMMEDIATELY"]

Unallocated == [allocated |-> FALSE]

\* the nodes wf.compile(**kwargs) records: one per nested call, named with
\* the compilation state's prefix, bound to the arguments of this call
CompiledNodes(fn, kwargs, cs) ==
    [i \in 1..Len(fn.body) |->
        [id |-> <<cs.prefix, "n", i - 1>>, ref |-> fn.body[i], inputs |-> kwargs]]

\* the output bindings wf.compile(**kwargs) records
CompiledOutputs(fn, kwargs, cs) ==
    [i \in 1..fn.outputs |->
        [var |-> OutName(i),
         binding |->
            IF Len(fn.body) = 0
            THEN [scalar |-> NativeResult(fn, kwargs).values[i]]
            ELSE [promise |-> [node |-> <<cs.prefix, "n", Len(fn.body) - 1>>,
                               var |-> OutName(i)]]]]

\* the workflow object after wf.compile(**kwargs) under compilation state cs
CompiledWorkflow(wf, kwargs, cs) ==
    [wf EXCEPT !.compiled = TRUE,
               !.nodes = CompiledNodes(wf.function, kwargs, cs),
               !.outputs = CompiledOutputs(wf.function, kwargs, cs)]

\* the serialized model get_serializable stores for a referenced entity
SerializedModel(entity, ss) ==
    CASE entity = "t1"  -> [type |-> "TaskSpec", template |-> [id |-> "t1", container |-> ss.image]]
      [] entity = "ft"  -> [type |-> "TaskSpec", template |-> [id |-> "ft", container |-> "remote"]]
      [] entity = "lp"  -> [type |-> "LaunchPlan"]
      [] entity = "ref" -> [type |-> "ReferenceSpec"]
      [] entity = "bad" -> [type |-> "ContainerSpec"]

\* the entity object itself, as it sits in the registry
EntityObject(entity) ==
    IF entity = "ft"
    THEN [id |-> "ft", container |-> "remote"]
    ELSE [id |-> entity]

\* the referenced entities of a node list, each once, in order of first use
RECURSIVE DistinctRefs(_)
DistinctRefs(nodes) ==
    IF nodes = <<>> THEN <<>>
    ELSE LET front == DistinctRefs(SubSeq(nodes, 1, Len(nodes) - 1))
             last  == nodes[Len(nodes)].ref
         IN  IF \E i \in 1..Len(front) : front[i] = last THEN front ELSE Append(front, last)

\* model_entities after get_serializable(model_entities, ss, wf)
EntityRegistry(wf, ss) ==
    LET refs == DistinctRefs(wf.nodes)
    IN  [i \in 1..Len(refs) |-> [entity |-> refs[i], model |-> SerializedModel(refs[i], ss)]]

\* the WorkflowSpec get_serializable returns
get_serializable(wf, ss) ==
    [template |-> [nodes |-> wf.nodes, outputs |-> wf.outputs,
                   on_failure |-> wf.on_failure],
     sub_workflows |-> <<>>]

(* ------------------------------------------------------------ construction *)

\* the arguments a constructor call may carry, with what the tracker module
\* answers about the callable unit's declared location
ConstructorArgs ==
    [task_function : CallableUnits \cup {None},
     execution_mode : ExecutionBehavior,
     task_resolver : {None, [name |-> "custom_resolver"]},
     istestfunction : BOOLEAN,
     isnested : BOOLEAN,
     is_functools_wrapped_module_level : BOOLEAN]

default_task_resolver == [name |-> "default_task_resolver"]

\* PythonAutoContainerTask.__init__: self._task_resolver = task_resolver or default_task_resolver
ResolverOf(args) ==
    IF args.task_resolver = None THEN default_task_resolver ELSE args.task_resolver

\* NestedUnsupported with a slip: the waiver for wrappers is forgotten
NestedUnsupported_NoWrapperWaiver(args) ==
    /\ ~args.istestfunction
    /\ args.isnested

\* the condition of lines 133-137
NestedUnsupported(args) ==
    /\ ~args.istestfunction
    /\ args.isnested
    /\ ~args.is_functools_wrapped_module_level

\* what PythonFunctionTask.__init__ does with its arguments
ConstructionOutcome(args) ==
    IF args.task_function = None
    THEN [kind |-> "raise", exc |-> "ValueError", msg |-> "TaskFunction is a required parameter"]
    ELSE IF ResolverOf(args) = default_task_resolver /\ NestedUnsupported(args)
    THEN [kind |-> "raise", exc |-> "ValueError", msg |-> "TaskFunction cannot be a nested/inner or local function"]
    ELSE [kind |-> "return"]

\* the Task Entity a successful constructor call leaves
ConstructedTask(args) ==
    [constructed |-> TRUE,
     _task_function |-> args.task_function,
     _execution_mode |-> args.execution_mode,
     _task_resolver |-> ResolverOf(args),
     _wf |-> 0]

NoTask == [constructed |-> FALSE]

(* ------------------------------------------------- compile_into_workflow *)

\* binding.binding.to_literal_model()
to_literal_model(binding) == [type |-> "Literal", scalar |-> binding.scalar]

\* NoNodes with a slip: the outputs are counted instead of the nodes
NoNodes_CountsOutputs(workflow_spec) == Len(workflow_spec.template.outputs) = 0

\* len(workflow_spec.template.nodes) == 0
NoNodes(workflow_spec) == Len(workflow_spec.template.nodes) = 0

\* LiteralMap(literals={binding.var: binding.binding.to_literal_model() ...})
LiteralMap(workflow_spec) ==
    LET outs == workflow_spec.template.outputs
    IN  [type |-> "LiteralMap",
         literals |-> { <<outs[i].var, to_literal_model(outs[i].binding)>> : i \in 1..Len(outs) }]

\* WalkEntry with a slip: the TaskSpec test comes before the reference-task test
WalkEntry_TypeTestFirst(item, tts) ==
    IF ~IsTask(item.entity) /\ ~IsTaskTemplate(item.entity)
    THEN [kind |-> "continue", tts |-> tts]
    ELSE IF IsTaskTemplate(item.entity)
    THEN [kind |-> "continue", tts |-> Append(tts, EntityObject(item.entity))]
    ELSE IF ~IsTaskSpec(item.model)
    THEN [kind |-> "raise", exc |-> "TypeError",
          msg |-> "Unexpected type for serialized form of task"]
    ELSE IF IsReferenceTask(item.entity)
    THEN [kind |-> "raise", exc |-> "Exception",
          msg |-> "Reference tasks are currently unsupported within dynamic tasks"]
    ELSE [kind |-> "continue", tts |-> Append(tts, item.model.template)]

\* one pass of the loop over model_entities.items()
WalkEntry(item, tts) ==
    IF ~IsTask(item.entity) /\ ~IsTaskTemplate(item.entity)
    THEN [kind |-> "continue", tts |-> tts]
    ELSE IF IsTaskTemplate(item.entity)
    THEN [kind |-> "continue", tts |-> Append(tts, EntityObject(item.entity))]
    ELSE IF IsReferenceTask(item.entity)
    THEN [kind |-> "raise", exc |-> "Exception",
          msg |-> "Reference tasks are currently unsupported within dynamic tasks"]
    ELSE IF ~IsTaskSpec(item.model)
    THEN [kind |-> "raise", exc |-> "TypeError",
          msg |-> "Unexpected type for serialized form of task"]
    ELSE [kind |-> "continue", tts |-> Append(tts, item.model.template)]

\* DynamicJobSpec with a slip: min_successes counts the templates
DynamicJobSpec_CountsTemplates(workflow_spec, tts) ==
    [type |-> "DynamicJobSpec",
     min_successes |-> Len(tts),
     tasks |-> tts,
     nodes |-> workflow_spec.template.nodes,
     outputs |-> workflow_spec.template.outputs,
     subworkflows |-> workflow_spec.sub_workflows]

\* _dynamic_job.DynamicJobSpec(...)
DynamicJobSpec(workflow_spec, tts) ==
    [type |-> "DynamicJobSpec",
     min_successes |-> Len(workflow_spec.template.nodes),
     tasks |-> tts,
     nodes |-> workflow_spec.template.nodes,
     outputs |-> workflow_spec.template.outputs,
     subworkflows |-> workflow_spec.sub_workflows]

(* ------------------------------------------------------------- dispatching *)

\* ExecuteDispatch with a slip: every task is sent to dynamic_execute
ExecuteDispatch_AlwaysDynamic(execution_mode) ==
    IF execution_mode \in {"DEFAULT", "DYNAMIC"} THEN "dynamic_execute" ELSE "none"

\* the if / elif of execute
ExecuteDispatch(execution_mode) ==
    IF execution_mode = "DEFAULT" THEN "user_entry_point"
    ELSE IF execution_mode = "DYNAMIC" THEN "dynamic_execute"
    ELSE "none"

\* LocalRunOutcome with a slip: the compilation's value is handed back
LocalRunOutcome_Compiled(compiled, native) == compiled

\* what the LOCAL_WORKFLOW_EXECUTION branch hands back: the callable's own
\* outcome, the compilation's value is dropped
LocalRunOutcome(compiled, native) == native

\* what the TASK_EXECUTION branch hands back
TaskExecutionOutcome(compiled) == compiled

(* ------------------------------------------------------------ invocations *)

Entries == {"execute", "dynamic_execute", "compile_into_workflow"}

NoOutcome == [kind |-> "none"]

Idle ==
    [pc |-> "idle", entry |-> "none", kwargs |-> None,
     stack |-> <<>>, caller_stack |-> <<>>, ctx |-> None, ret |-> "none",
     model_entities |-> <<>>, workflow_spec |-> None, tts |-> <<>>, idx |-> 0,
     calls |-> <<>>, compiled |-> NoOutcome, outcome |-> NoOutcome]

\* a call stack that never invokes the Task Entity
Absent == [Idle EXCEPT !.pc = "absent"]

\* one run of the callable unit's body, as the side-effect probe sees it
ProbeEntry(how, kwargs, ctx) == [how |-> how, kwargs |-> kwargs, under |-> ctx]

\* compile_into_workflow returns value: its with-block is left, and the
\* caller goes on
CompileReturns(r, value) ==
    LET left == [r EXCEPT !.stack = pop_context(r.stack),
                          !.compiled = [kind |-> "return", value |-> value]]
    IN  IF r.ret = "LOCAL_WORKFLOW_EXECUTION"
        THEN [left EXCEPT !.pc = "local_run"]
        ELSE [left EXCEPT !.pc = "done",
                          !.outcome = TaskExecutionOutcome(left.compiled)]

\* CompileRaises with a slip: a fault leaves the pushed contexts in place
CompileRaises_NoRestore(r, fault) ==
    [r EXCEPT !.pc = "done", !.compiled = fault, !.outcome = fault]

\* compile_into_workflow raises: every with-block on the way out is left
CompileRaises(r, fault) ==
    LET left == [r EXCEPT !.stack = pop_context(r.stack), !.compiled = fault]
    IN  IF r.ret = "LOCAL_WORKFLOW_EXECUTION"
        THEN [left EXCEPT !.pc = "done", !.stack = pop_context(left.stack),
                          !.outcome = fault]
        ELSE [left EXCEPT !.pc = "done", !.outcome = fault]

Fault(w) == [kind |-> "raise", exc |-> w.exc]

(* ---------------------------------------------------------------- actions *)

Init ==
    /\ ctor_args \in [args : ConstructorArgs, pending : {TRUE}]
    /\ task = NoTask
    /\ wfs = [i \in Procs |-> Unallocated]
    /\ inv = [p \in Procs |-> IF p = 1 THEN Idle ELSE Absent]

\* PythonFunctionTask.__init__
Construct ==
    /\ ctor_args.pending
    /\ ctor_args' = [pending |-> FALSE, outcome |-> ConstructionOutcome(ctor_args.args)]
    /\ task' = IF ConstructionOutcome(ctor_args.args).kind = "return"
               THEN ConstructedTask(ctor_args.args)
               ELSE NoTask
    /\ UNCHANGED <<wfs, inv>>

\* a caller invokes one of the three operations on the constructed entity
Call(p) ==
    /\ task.constructed
    /\ inv[p].pc = "idle"
    /\ \E entry \in Entries, kwargs \in Kwargs, c \in AmbientContexts :
          inv' = [inv EXCEPT ![p] =
                    [@ EXCEPT !.pc = entry, !.entry = entry, !.kwargs = kwargs,
                              !.stack = <<c>>, !.caller_stack = <<c>>,
                              !.ctx = IF entry = "compile_into_workflow" THEN c ELSE None,
                              !.ret = IF entry = "compile_into_workflow" THEN "caller" ELSE "none"]]
    /\ UNCHANGED <<ctor_args, task, wfs>>

\* execute, DEFAULT: the callable unit is run and its outcome handed back
ExecuteDefault(p) ==
    LET r == inv[p] IN
    /\ r.pc = "execute"
    /\ ExecuteDispatch(task._execution_mode) = "user_entry_point"
    /\ inv' = [inv EXCEPT ![p] =
                 [r EXCEPT !.pc = "done",
                           !.calls = Append(r.calls, ProbeEntry("native", r.kwargs, current_context(r.stack))),
                           !.outcome = user_entry_point(task._task_function, r.kwargs)]]
    /\ UNCHANGED <<ctor_args, task, wfs>>

\* execute, DYNAMIC: dynamic_execute is entered with the same arguments
ExecuteDynamic(p) ==
    LET r == inv[p] IN
    /\ r.pc = "execute"
    /\ ExecuteDispatch(task._execution_mode) = "dynamic_execute"
    /\ inv' = [inv EXCEPT ![p] = [r EXCEPT !.pc = "dynamic_execute"]]
    /\ UNCHANGED <<ctor_args, task, wfs>>

\* dynamic_execute under LOCAL_WORKFLOW_EXECUTION: the check context is
\* entered and compile_into_workflow called with it
DynamicLocalWorkflow(p) ==
    LET r == inv[p]
        ctx == current_context(r.stack)
        checking == LocalCheckContext(ctx)
    IN
    /\ r.pc = "dynamic_execute"
    /\ DynamicBranch(ctx) = "LOCAL_WORKFLOW_EXECUTION"
    /\ inv' = [inv EXCEPT ![p] =
                 [r EXCEPT !.pc = "compile_into_workflow",
                           !.stack = push_context(r.stack, checking),
                           !.ctx = checking,
                           !.ret = "LOCAL_WORKFLOW_EXECUTION"]]
    /\ UNCHANGED <<ctor_args, task, wfs>>

\* dynamic_execute under TASK_EXECUTION: compile_into_workflow is called
DynamicTask(p) ==
    LET r == inv[p]
        ctx == current_context(r.stack)
    IN
    /\ r.pc = "dynamic_execute"
    /\ DynamicBranch(ctx) = "TASK_EXECUTION"
    /\ inv' = [inv EXCEPT ![p] =
                 [r EXCEPT !.pc = "compile_into_workflow",
                           !.ctx = ctx,
                           !.ret = "TASK_EXECUTION"]]
    /\ UNCHANGED <<ctor_args, task, wfs>>

\* dynamic_execute under LOCAL_TASK_EXECUTION: the callable unit is run
DynamicLocalTask(p) ==
    LET r == inv[p]
        ctx == current_context(r.stack)
    IN
    /\ r.pc = "dynamic_execute"
    /\ DynamicBranch(ctx) = "LOCAL_TASK_EXECUTION"
    /\ inv' = [inv EXCEPT ![p] =
                 [r EXCEPT !.pc = "done",
                           !.calls = Append(r.calls, ProbeEntry("native", r.kwargs, ctx)),
                           !.outcome = user_entry_point(task._task_function, r.kwargs)]]
    /\ UNCHANGED <<ctor_args, task, wfs>>

\* dynamic_execute under any other context: the function body ends, which
\* returns None
DynamicFallthrough(p) ==
    LET r == inv[p]
        ctx == current_context(r.stack)
    IN
    /\ r.pc = "dynamic_execute"
    /\ DynamicBranch(ctx) = "fallthrough"
    /\ inv' = [inv EXCEPT ![p] =
                 [r EXCEPT !.pc = "done",
                           !.outcome = [kind |-> "return", value |-> None]]]
    /\ UNCHANGED <<ctor_args, task, wfs>>

\* compile_into_workflow, lines 177-182: the compilation context is entered
CompileEnter(p) ==
    LET r == inv[p] IN
    /\ r.pc = "compile_into_workflow"
    /\ inv' = [inv EXCEPT ![p] =
                 [r EXCEPT !.pc = "new_workflow",
                           !.stack = push_context(r.stack, CompileContext(r.ctx))]]
    /\ UNCHANGED <<ctor_args, task, wfs>>

\* lines 186-191: the workflow object is built and stored in self._wf
NewWorkflow(p) ==
    LET r == inv[p] IN
    /\ r.pc = "new_workflow"
    /\ wfs' = [wfs EXCEPT ![p] = NewWorkflowObject(task._task_function)]
    /\ task' = [task EXCEPT !._wf = p]
    /\ inv' = [inv EXCEPT ![p] = [r EXCEPT !.pc = "wf_compile"]]
    /\ UNCHANGED ctor_args

\* line 192: self._wf.compile(**kwargs) runs the callable unit under the
\* compilation context; a fault of the callable unit leaves the function
WfCompile(p) ==
    LET r == inv[p]
        cur == current_context(r.stack)
        wf == wfs[task._wf]
        ran == [r EXCEPT !.calls = Append(r.calls, ProbeEntry("compile", r.kwargs, cur))]
    IN
    /\ r.pc = "wf_compile"
    /\ IF wf.function.faulty
       THEN /\ inv' = [inv EXCEPT ![p] =
                         CompileRaises(ran, [kind |-> "raise", exc |-> "FlyteScopedUserException"])]
            /\ wfs' = wfs
       ELSE /\ inv' = [inv EXCEPT ![p] = [ran EXCEPT !.pc = "serialize"]]
            /\ wfs' = [wfs EXCEPT ![task._wf] =
                         CompiledWorkflow(wf, r.kwargs, cur.compilation_state)]
    /\ UNCHANGED <<ctor_args, task>>

\* lines 194-201: wf = self._wf; get_serializable fills model_entities
Serialize(p) ==
    LET r == inv[p]
        wf == wfs[task._wf]
        ss == r.ctx.serialization_settings
    IN
    /\ r.pc = "serialize"
    /\ inv' = [inv EXCEPT ![p] =
                 [r EXCEPT !.pc = "check_nodes",
                           !.model_entities = EntityRegistry(wf, ss),
                           !.workflow_spec = get_serializable(wf, ss)]]
    /\ UNCHANGED <<ctor_args, task, wfs>>

\* lines 204-209: no nodes, the literal map is returned
ReturnLiterals(p) ==
    LET r == inv[p] IN
    /\ r.pc = "check_nodes"
    /\ NoNodes(r.workflow_spec)
    /\ inv' = [inv EXCEPT ![p] = CompileReturns(r, LiteralMap(r.workflow_spec))]
    /\ UNCHANGED <<ctor_args, task, wfs>>

\* lines 204, 212: there are nodes, the walk starts
BeginWalk(p) ==
    LET r == inv[p] IN
    /\ r.pc = "check_nodes"
    /\ ~NoNodes(r.workflow_spec)
    /\ inv' = [inv EXCEPT ![p] = [r EXCEPT !.pc = "walk", !.tts = <<>>, !.idx = 1]]
    /\ UNCHANGED <<ctor_args, task, wfs>>

\* lines 213-237: one registry entry is examined
WalkStep(p) ==
    LET r == inv[p]
        w == WalkEntry(r.model_entities[r.idx], r.tts)
    IN
    /\ r.pc = "walk"
    /\ r.idx <= Len(r.model_entities)
    /\ inv' = [inv EXCEPT ![p] =
                 IF w.kind = "raise"
                 THEN CompileRaises(r, Fault(w))
                 ELSE [r EXCEPT !.tts = w.tts, !.idx = r.idx + 1]]
    /\ UNCHANGED <<ctor_args, task, wfs>>

\* lines 239-247: the DynamicJobSpec is built and returned
BuildSpec(p) ==
    LET r == inv[p] IN
    /\ r.pc = "walk"
    /\ r.idx > Len(r.model_entities)
    /\ inv' = [inv EXCEPT ![p] = CompileReturns(r, DynamicJobSpec(r.workflow_spec, r.tts))]
    /\ UNCHANGED <<ctor_args, task, wfs>>

\* lines 273-274: after the check compilation the callable unit is run with
\* the arguments of the call, and the check context is left
LocalRun(p) ==
    LET r == inv[p]
        native == user_entry_point(task._task_function, r.kwargs)
    IN
    /\ r.pc = "local_run"
    /\ inv' = [inv EXCEPT ![p] =
                 [r EXCEPT !.pc = "done",
                           !.calls = Append(r.calls, ProbeEntry("native", r.kwargs, current_context(r.stack))),
                           !.stack = pop_context(r.stack),
                           !.outcome = LocalRunOutcome(r.compiled, native)]]
    /\ UNCHANGED <<ctor_args, task, wfs>>

Step(p) ==
    \/ Call(p)
    \/ ExecuteDefault(p)
    \/ ExecuteDynamic(p)
    \/ DynamicLocalWorkflow(p)
    \/ DynamicTask(p)
    \/ DynamicLocalTask(p)
    \/ DynamicFallthrough(p)
    \/ CompileEnter(p)
    \/ NewWorkflow(p)
    \/ WfCompile(p)
    \/ Serialize(p)
    \/ ReturnLiterals(p)
    \/ BeginWalk(p)
    \/ WalkStep(p)
    \/ BuildSpec(p)
    \/ LocalRun(p)

Next == Construct \/ \E p \in Procs : Step(p)

\* one call stack invoking the Task Entity
Spec == Init /\ [][Next]_vars

\* two call stacks invoking the same Task Entity, their steps interleaved
InitConcurrent ==
    /\ ctor_args \in [args : [task_function : [body : SeqsUpTo({"t1"}, 1), faulty : {FALSE}, outputs : {1}],
                              execution_mode : ExecutionBehavior,
                              task_resolver : {None},
                              istestfunction : {FALSE},
                              isnested : {FALSE},
                              is_functools_wrapped_module_level : {FALSE}],
                      pending : {TRUE}]
    /\ task = NoTask
    /\ wfs = [i \in Procs |-> Unallocated]
    /\ inv = [p \in Procs |-> Idle]

SpecConcurrent == InitConcurrent /\ [][Next]_vars

(* ----------------------------------------------------------------- claims *)

\* the callable unit of the constructed Task Entity
TheFunction == task._task_function

\* the context the caller of invocation p was running under
CallerContext(p) == inv[p].caller_stack[1]

\* invocation p is inside dynamic_execute (entered directly or from execute)
InDynamicExecute(p) ==
    \/ inv[p].entry = "dynamic_execute"
    \/ inv[p].entry = "execute" /\ inv[p].pc # "execute" /\ task._execution_mode = "DYNAMIC"

\* invocation p has left its operation
Finished(p) == inv[p].pc = "done"

IsArtifact(value) == value.type \in {"DynamicJobSpec", "LiteralMap"}

\* invocation p is dynamic_execute called under TASK_EXECUTION
UnderTaskExecution(p) ==
    InDynamicExecute(p) /\ ModeIs(CallerContext(p), "TASK_EXECUTION")

\* C1, as claimed: under TASK_EXECUTION dynamic_execute never runs the body
\* of the callable unit (the probe in the body never fires) and what it
\* returns is a compiled artifact.
C1_ProbeNeverFires ==
    \A p \in Procs :
        UnderTaskExecution(p) =>
            /\ inv[p].calls = <<>>
            /\ (Finished(p) /\ inv[p].outcome.kind = "return") => IsArtifact(inv[p].outcome.value)

\* C1, amended: under TASK_EXECUTION dynamic_execute never runs the callable
\* unit natively; the body is run once, by the workflow's compile step under
\* the compilation context and with the arguments of the call, so a probe in
\* the body fires exactly once before anything is returned; and what is
\* returned is a compiled artifact, never the native result.
C1_CompiledNotRunNatively ==
    \A p \in Procs :
        UnderTaskExecution(p) =>
            /\ Len(inv[p].calls) <= 1
            /\ \A i \in 1..Len(inv[p].calls) :
                  /\ inv[p].calls[i].how = "compile"
                  /\ inv[p].calls[i].kwargs = inv[p].kwargs
                  /\ inv[p].calls[i].under.compilation_state # None
            /\ Finished(p) => Len(inv[p].calls) = 1
            /\ (Finished(p) /\ inv[p].outcome.kind = "return") =>
                  /\ IsArtifact(inv[p].outcome.value)
                  /\ inv[p].outcome.value # NativeResult(TheFunction, inv[p].kwargs)

C1_Witness ==
    /\ UnderTaskExecution(1)
    /\ Finished(1)
    /\ inv[1].outcome.kind = "return"
    /\ inv[1].outcome.value.type = "DynamicJobSpec"
    /\ Len(inv[1].calls) = 1

\* C2: whenever compile_into_workflow has been left, by a return on the
\* zero-node path, by a returned DynamicJobSpec or by a fault, the context
\* stack is the one the call started from: after a direct call or the
\* TASK_EXECUTION branch it is the caller's stack; inside the
\* LOCAL_WORKFLOW_EXECUTION branch it is the caller's stack plus the check
\* context, and once that branch is left it is the caller's stack again.
\* While the call runs, the caller's part of the stack is untouched.
C2_ContextRestored ==
    \A p \in Procs :
        LET r == inv[p] IN
        /\ r.pc \notin {"idle", "absent"} =>
              /\ Len(r.stack) >= Len(r.caller_stack)
              /\ SubSeq(r.stack, 1, Len(r.caller_stack)) = r.caller_stack
        /\ r.pc = "done" => r.stack = r.caller_stack
        /\ r.pc = "local_run" =>
              r.stack = Append(r.caller_stack, LocalCheckContext(r.caller_stack[1]))

C2_Witness ==
    /\ Finished(1)
    /\ inv[1].ret = "LOCAL_WORKFLOW_EXECUTION"
    /\ inv[1].compiled.kind = "raise"
    /\ inv[1].compiled.exc = "TypeError"
    /\ inv[1].stack = inv[1].caller_stack

\* the entity e is a task (a python task or a resolved task template)
RefIsTask(e) == IsTask(e) \/ IsTaskTemplate(e)

\* C3: a DynamicJobSpec returned by compile_into_workflow for a callable
\* unit whose body makes N >= 1 nested task calls has min_successes = N and
\* N nodes, and the task of every node is found in its tasks list.
C3_SpecCountsNodes ==
    \A p \in Procs :
        LET r == inv[p] IN
        (r.compiled.kind = "return" /\ r.compiled.value.type = "DynamicJobSpec") =>
            LET dj == r.compiled.value
                body == TheFunction.body
            IN  /\ Len(body) >= 1
                /\ dj.min_successes = Len(dj.nodes)
                /\ (\A i \in 1..Len(body) : RefIsTask(body[i])) =>
                      /\ dj.min_successes = Len(body)
                      /\ Len(dj.nodes) = Len(body)
                /\ \A i \in 1..Len(dj.nodes) :
                      RefIsTask(dj.nodes[i].ref) =>
                          \E j \in 1..Len(dj.tasks) : dj.tasks[j].id = dj.nodes[i].ref

C3_Witness ==
    /\ inv[1].compiled.kind = "return"
    /\ inv[1].compiled.value.type = "DynamicJobSpec"
    /\ TheFunction.body = <<"t1", "t1">>
    /\ inv[1].compiled.value.min_successes = 2
    /\ Len(inv[1].compiled.value.tasks) = 1

\* C4: when the compiled template has no nodes, compile_into_workflow
\* returns a literal map holding, for each declared output, the literal of
\* the value its output binding carries, and nothing else; no
\* DynamicJobSpec is produced and the registry walk never starts.
C4_ZeroNodesLiteralMap ==
    \A p \in Procs :
        LET r == inv[p] IN
        (r.workflow_spec # None /\ r.pc # "check_nodes"
            /\ Len(r.workflow_spec.template.nodes) = 0) =>
            LET outs == r.workflow_spec.template.outputs IN
            /\ r.compiled.kind = "return"
            /\ r.compiled.value.type = "LiteralMap"
            /\ Cardinality(r.compiled.value.literals) = TheFunction.outputs
            /\ \A i \in 1..TheFunction.outputs :
                  <<OutName(i), [type |-> "Literal", scalar |-> outs[i].binding.scalar]>>
                      \in r.compiled.value.literals
            /\ r.idx = 0
            /\ r.tts = <<>>
            /\ r.pc # "walk"

C4_Witness ==
    /\ inv[1].compiled.kind = "return"
    /\ inv[1].compiled.value.type = "LiteralMap"
    /\ TheFunction.outputs = 1
    /\ inv[1].compiled.value.literals = {<<OutName(1), [type |-> "Literal", scalar |-> 21]>>}

\* the context gives dynamic_execute no mode it knows
NoKnownMode(ctx) ==
    \/ ctx.execution_state = None
    \/ ctx.execution_state.mode \notin Mode

C6_NestedRejectedExactly ==
    [][(ctor_args.pending /\ ~ctor_args'.pending) =>
        LET a == ctor_args.args
            o == ctor_args'.outcome
            rejected == /\ a.task_function # None
                        /\ a.task_resolver = None
                        /\ a.isnested
                        /\ ~a.istestfunction
                        /\ ~a.is_functools_wrapped_module_level
        IN  /\ rejected <=>
                  /\ o.kind = "raise"
                  /\ o.exc = "ValueError"
                  /\ o.msg = "TaskFunction cannot be a nested/inner or local function"
            /\ a.task_function # None => (o.kind = "return" <=> ~rejected)
            /\ task'.constructed <=> o.kind = "return"]_vars

C6_Witness ==
    /\ ~ctor_args.pending
    /\ ctor_args.outcome.kind = "raise"
    /\ ctor_args.outcome.msg = "TaskFunction cannot be a nested/inner or local function"
    /\ ~task.constructed

\* C7: a step out of execute is one of two: for a DEFAULT task the callable
\* unit is run once with the arguments given and execute ends with exactly
\* its native result (or its fault), no context having been consulted, no
\* compilation started; for a DYNAMIC task dynamic_execute is entered with
\* the same arguments. No finished execute has taken neither.
C7_ExecuteDispatch ==
    [][\A p \in Procs :
        (inv[p].pc = "execute" /\ inv'[p].pc # "execute") =>
            LET r == inv[p]
                n == inv'[p]
                fn == task._task_function
            IN
            \/ /\ task._execution_mode = "DEFAULT"
               /\ n.pc = "done"
               /\ Len(n.calls) = 1
               /\ n.calls[1].how = "native"
               /\ n.calls[1].kwargs = r.kwargs
               /\ IF fn.faulty
                  THEN n.outcome.kind = "raise"
                  ELSE n.outcome = [kind |-> "return",
                                    value |-> [type |-> "native",
                                               values |-> [i \in 1..fn.outputs |-> 10 * r.kwargs.a + i]]]
               /\ n.compiled = NoOutcome
               /\ n.stack = r.stack
               /\ task' = task
            \/ /\ task._execution_mode = "DYNAMIC"
               /\ n.pc = "dynamic_execute"
               /\ n.kwargs = r.kwargs
               /\ n.calls = <<>>
               /\ n.outcome = NoOutcome]_vars

C7_Witness ==
    /\ inv[1].entry = "execute"
    /\ task._execution_mode = "DEFAULT"
    /\ Finished(1)
    /\ inv[1].outcome.kind = "return"
    /\ inv[1].outcome.value.type = "native"

\* what a finished invocation returned was built from its own arguments
OwnResult(p) ==
    LET r == inv[p] IN
    (Finished(p) /\ r.outcome.kind = "return" /\ r.outcome.value # None) =>
        LET v == r.outcome.value IN
        CASE v.type = "DynamicJobSpec" ->
                \A i \in 1..Len(v.nodes) : v.nodes[i].inputs = r.kwargs
          [] v.type = "LiteralMap" ->
                v.literals = { <<OutName(i), [type |-> "Literal",
                                               scalar |-> NativeResult(TheFunction, r.kwargs).values[i]]>> :
                               i \in 1..TheFunction.outputs }
          [] OTHER -> v = NativeResult(TheFunction, r.kwargs)

\* C8: once constructed the Task Entity never changes, and whatever the
\* interleaving of two invocations each returns what it would return alone.
C8_ReadOnlyIsolated ==
    [][task.constructed => (task' = task /\ \A p \in Procs : OwnResult(p)')]_vars

\* the second half of C8 alone: every finished invocation returned a result
\* built from its own arguments
C8_Isolated == \A p \in Procs : OwnResult(p)

\* invocation p is dynamic_execute called under LOCAL_WORKFLOW_EXECUTION
UnderLocalWorkflow(p) ==
    /\ InDynamicExecute(p)
    /\ ModeIs(CallerContext(p), "LOCAL_WORKFLOW_EXECUTION")
    /\ inv[p].pc # "dynamic_execute"

\* C9: in the LOCAL_WORKFLOW_EXECUTION branch the check context (mode
\* TASK_EXECUTION, the placeholder serialization settings, nothing else
\* changed) is pushed first; compile_into_workflow runs under it with the
\* arguments of the call; the callable unit is run natively only after
\* compile_into_workflow has returned, with the same arguments; and what is
\* returned is the native result, not what the compilation produced.
C9_LocalWorkflowOrder ==
    \A p \in Procs :
        UnderLocalWorkflow(p) =>
            LET r == inv[p]
                c == CallerContext(p)
                check == [execution_state |-> [mode |-> "TASK_EXECUTION"],
                          serialization_settings |-> _LOCAL_ONLY_SS,
                          compilation_state |-> c.compilation_state]
            IN
            /\ r.pc # "done" => (Len(r.stack) >= 2 /\ r.stack[2] = check)
            /\ r.ctx = check
            /\ \A i \in 1..Len(r.calls) :
                  /\ r.calls[i].kwargs = r.kwargs
                  /\ r.calls[i].under.execution_state.mode = "TASK_EXECUTION"
                  /\ r.calls[i].under.serialization_settings = _LOCAL_ONLY_SS
                  /\ r.calls[i].how = "compile" => i = 1
                  /\ r.calls[i].how = "native" =>
                        /\ i = 2
                        /\ r.calls[1].how = "compile"
                        /\ r.compiled.kind = "return"
            /\ r.pc = "local_run" => (Len(r.calls) = 1 /\ r.compiled.kind = "return")
            /\ (Finished(p) /\ r.outcome.kind = "return") =>
                  /\ Len(r.calls) = 2
                  /\ r.outcome.value = NativeResult(TheFunction, r.kwargs)
                  /\ r.outcome.value # r.compiled.value

C9_Witness ==
    /\ UnderLocalWorkflow(1)
    /\ Finished(1)
    /\ inv[1].outcome.kind = "return"
    /\ inv[1].compiled.kind = "return"
    /\ inv[1].compiled.value.type = "DynamicJobSpec"
    /\ Len(inv[1].calls) = 2

\* the registry entry is one the walk keeps a template for
Kept(item) == IsTask(item.entity) \/ IsTaskTemplate(item.entity)

\* the registry entry is one the walk fails on
Refused(item) ==
    /\ IsTask(item.entity)
    /\ ~IsTaskTemplate(item.entity)
    /\ IsReferenceTask(item.entity) \/ item.model.type # "TaskSpec"

\* the template the walk keeps for a kept entry
KeptTemplate(item) ==
    IF IsTaskTemplate(item.entity) THEN EntityObject(item.entity) ELSE item.model.template

\* the templates of the kept entries among the first n, in registry order
KeptTemplates(registry, n) ==
    LET kept == SelectSeq(SubSeq(registry, 1, n), Kept)
    IN  [i \in 1..Len(kept) |-> KeptTemplate(kept[i])]

\* C10: with at least one node, the walk goes through the registry in
\* insertion order, skips what is neither a task nor a task template, keeps
\* a task template as it is and the template of a task's TaskSpec, and
\* fails at the first task that is a reference task (Exception) or whose
\* model is no TaskSpec (TypeError). A returned DynamicJobSpec lists exactly
\* the kept templates in registry order; a failure returns no
\* DynamicJobSpec and reaches the caller as raised.
C10_RegistryWalk ==
    \A p \in Procs :
        LET r == inv[p]
            reg == r.model_entities
        IN
        /\ r.pc = "walk" =>
              /\ r.idx \in 1..(Len(reg) + 1)
              /\ r.tts = KeptTemplates(reg, r.idx - 1)
              /\ \A j \in 1..(r.idx - 1) : ~Refused(reg[j])
        /\ (r.compiled.kind = "return" /\ r.compiled.value.type = "DynamicJobSpec") =>
              /\ r.compiled.value.tasks = KeptTemplates(reg, Len(reg))
              /\ \A j \in 1..Len(reg) : ~Refused(reg[j])
        /\ (r.compiled.kind = "raise" /\ r.compiled.exc # "FlyteScopedUserException") =>
              /\ \E i \in 1..Len(reg) :
                    /\ Refused(reg[i])
                    /\ \A j \in 1..(i - 1) : ~Refused(reg[j])
                    /\ r.compiled.exc =
                          IF IsReferenceTask(reg[i].entity) THEN "Exception" ELSE "TypeError"
              /\ Finished(p)
              /\ r.outcome = r.compiled
        /\ (r.pc \in {"done", "local_run"} /\ r.workflow_spec # None
              /\ Len(r.workflow_spec.template.nodes) > 0
              /\ \E j \in 1..Len(reg) : Refused(reg[j])) =>
              r.compiled.kind = "raise"

C10_Witness ==
    /\ inv[1].compiled.kind = "raise"
    /\ inv[1].compiled.exc = "Exception"
    /\ Len(inv[1].model_entities) = 2
    /\ inv[1].model_entities[1].entity = "ft"
    /\ inv[1].model_entities[2].entity = "ref"
    /\ Finished(1)

====
